---------------------------- MODULE Spec2Model ----------------------------
(***************************************************************************)
(* A model of qec-util: the Layout class (layouts/layout.py), the rotated  *)
(* surface code generator rot_surf_code (layouts/library.py) and the       *)
(* schedule translator circuit_from_schedule (circuits/util.py).           *)
(*                                                                         *)
(* Python values are modelled as follows.  A dict is a function whose      *)
(* domain is its key set (the empty dict is << >>); a list is a sequence;  *)
(* None is the string NoneVal, which no label or attribute value equals;   *)
(* a qubit label is a string, built as the f-strings of the source build   *)
(* it.  An insertion-ordered dict whose order the code reads (the nodes    *)
(* and the adjacency of a networkx graph) is a sequence of keys next to    *)
(* the function.  Times are integers.                                      *)
(***************************************************************************)
EXTENDS Integers, Sequences, FiniteSets, TLC

VARIABLES
    gen,        \* rot_surf_code: the locals of one call, gen.pc its position
    setup,      \* Layout: the mapping the caller holds (from_dict's argument)
    layout,     \* Layout: the Layout instance under test
    origin,     \* Layout: what the instance was made from
    dumped,     \* Layout: the last result of layout.to_dict()
    reloaded,   \* Layout: the last result of Layout.from_dict(dumped)
    query,      \* Layout: the last query (get_inds, get_qubits, a matrix) and its result
    circ        \* circuit_from_schedule: the locals of one call

vars == <<gen, setup, layout, origin, dumped, reloaded, query, circ>>
genVars == <<gen>>
layVars == <<setup, layout, origin, dumped, reloaded, query>>
circVars == <<circ>>

-----------------------------------------------------------------------------
(* Bounds of the model *)

MaxDistance == 5
MaxRecords == 2
MaxGates == 2
MaxTime == 2
MaxDuration == 1
MaxAncillas == 3

-----------------------------------------------------------------------------
(* Python values *)

NoneVal == "<None>"
Idle == [pc |-> "idle"]

Put(f, k, v) == [y \in (DOMAIN f) \cup {k} |-> IF y = k THEN v ELSE f[y]]
Without(f, ks) == [y \in (DOMAIN f) \ ks |-> f[y]]
Range(s) == {s[i] : i \in DOMAIN s}

Update(f, g) == [y \in (DOMAIN f) \cup (DOMAIN g) |-> IF y \in DOMAIN g THEN g[y] ELSE f[y]]

\* A dict whose insertion order the code reads is a sequence of <<key, value>>
\* pairs with pairwise distinct keys.
OKeys(od) == [i \in 1..Len(od) |-> od[i][1]]
OHas(od, k) == \E i \in 1..Len(od) : od[i][1] = k
OGet(od, k) == od[CHOOSE i \in 1..Len(od) : od[i][1] = k][2]
OPut(od, k, v) ==
    IF OHas(od, k) THEN [i \in 1..Len(od) |-> IF od[i][1] = k THEN <<k, v>> ELSE od[i]]
    ELSE Append(od, <<k, v>>)

RECURSIVE PyRange(_, _, _)
PyRange(a, b, step) == IF a >= b THEN << >> ELSE <<a>> \o PyRange(a + step, b, step)

\* the first position of x in the sequence s (list.index), 0 when absent
IndexOf(s, x) == IF x \in Range(s) THEN CHOOSE i \in DOMAIN s : s[i] = x /\ \A j \in 1..(i - 1) : s[j] # x
                 ELSE 0

Directions == <<"north_east", "north_west", "south_east", "south_west">>

-----------------------------------------------------------------------------
(* layouts/library.py *)

get_data_index(row, col, distance, start_ind) ==
    LET row_ind == row \div 2
        col_ind == col \div 2
    IN  start_ind + (row_ind * distance) + col_ind

shift_direction(row_shift, col_shift) ==
    LET ver_direction == IF row_shift > 0 THEN "north" ELSE "south"
        hor_direction == IF col_shift > 0 THEN "east" ELSE "west"
    IN  ver_direction \o "_" \o hor_direction

\* a mutant of invert_shift: the shift is returned as it is
invert_shift_same(row_shift, col_shift) == <<row_shift, col_shift>>

invert_shift(row_shift, col_shift) == <<-row_shift, -col_shift>>

is_valid(row, col, max_size) ==
    IF ~(0 <= row /\ row < max_size) THEN FALSE
    ELSE IF ~(0 <= col /\ col < max_size) THEN FALSE
    ELSE TRUE

RECURSIVE FillMissing(_, _)
FillMissing(neighbors, i) ==
    IF i > Len(Directions) THEN neighbors
    ELSE IF ~OHas(neighbors, Directions[i])
         THEN FillMissing(OPut(neighbors, Directions[i], NoneVal), i + 1)
         ELSE FillMissing(neighbors, i + 1)

add_missing_neighbours(neighbor_data) ==
    [q \in DOMAIN neighbor_data |-> FillMissing(neighbor_data[q], 1)]

\* a distance argument: a Python int, or a float with an integral value
IsInt(distance) == distance.kind = "int"

check_distance(distance) ==
    IF ~IsInt(distance) THEN "ValueError: distance provided must be an integer"
    ELSE IF distance.val < 0 \/ (distance.val % 2) = 0
         THEN "ValueError: distance must be an odd positive integer"
         ELSE "ok"

GridSize(distance) == 2 * distance + 1

\* product((1, -1), repeat=2)
nbr_shifts == << <<1, 1>>, <<1, -1>>, <<-1, 1>>, <<-1, -1>> >>

DataCols(grid_size, row) == PyRange(1, grid_size, 2)
\* a mutant of XCols: the scan of a row runs on to the last column of the grid
XCols_to_border(grid_size, row) == PyRange(2 + (row % 4), grid_size, 4)

XCols(grid_size, row) == PyRange(2 + (row % 4), grid_size - 1, 4)
ZCols(grid_size, row) == PyRange(row % 4, grid_size, 4)

ColsOf(kind, grid_size, row) ==
    CASE kind = "data" -> DataCols(grid_size, row)
      [] kind = "x" -> XCols(grid_size, row)
      [] kind = "z" -> ZCols(grid_size, row)

\* the (row, col) pairs the two nested for loops visit, in order
RECURSIVE Cross(_, _, _, _)
Cross(kind, grid_size, rows, i) ==
    IF i > Len(rows) THEN << >>
    ELSE LET cols == ColsOf(kind, grid_size, rows[i])
         IN  [k \in 1..Len(cols) |-> <<rows[i], cols[k]>>] \o Cross(kind, grid_size, rows, i + 1)

DataCoords(grid_size) == Cross("data", grid_size, PyRange(1, grid_size, 2), 1)
XCoords(grid_size) == Cross("x", grid_size, PyRange(0, grid_size, 2), 1)
ZCoords(grid_size) == Cross("z", grid_size, PyRange(2, grid_size - 1, 2), 1)

\* cycle(("low", "high")), advanced once per row of data qubits
FreqGroup(row) == IF (((row - 1) \div 2) % 2) = 0 THEN "low" ELSE "high"

DataLabel(index) == "D" \o ToString(index)
AncLabel(letter, index) == letter \o ToString(index)

\* neighbor_data[qubit], neighbor_data a defaultdict(dict)
NeighborsOf(neighbor_data, qubit) ==
    IF qubit \in DOMAIN neighbor_data THEN neighbor_data[qubit] ELSE << >>

\* neighbor_data[qubit][direction] = value
SetNeighbor(neighbor_data, qubit, direction, value) ==
    Put(neighbor_data, qubit, OPut(NeighborsOf(neighbor_data, qubit), direction, value))

\* the writes that replace an entry already holding another qubit
Rewrites(neighbor_data, qubit, direction, value) ==
    LET old == NeighborsOf(neighbor_data, qubit)
    IN  IF OHas(old, direction) /\ OGet(old, direction) # value
        THEN {<<qubit, direction, OGet(old, direction), value>>}
        ELSE {}

GenStart(distance) ==
    [pc |-> "check", distance |-> distance, i |-> 1, s |-> 1, anc |-> NoneVal,
     row |-> 0, col |-> 0, x_index |-> 1, z_index |-> 1,
     layout_data |-> << >>, neighbor_data |-> << >>, rewrites |-> {},
     result |-> NoneVal, err |-> "ok"]

\* line 132
GenCheck(g) ==
    LET r == check_distance(g.distance)
    IN  IF r # "ok" THEN [g EXCEPT !.pc = "error", !.err = r]
        ELSE [g EXCEPT !.pc = "data"]

\* lines 169-181, one data qubit
GenData(g) ==
    LET distance == g.distance.val
        coords == DataCoords(GridSize(distance))
    IN  IF g.i > Len(coords) THEN [g EXCEPT !.pc = "x_anc", !.i = 1]
        ELSE LET row == coords[g.i][1]
                 col == coords[g.i][2]
                 index == get_data_index(row, col, distance, 1)
                 qubit_info == [qubit |-> DataLabel(index), role |-> "data",
                                coords |-> <<row, col>>, freq_group |-> FreqGroup(row),
                                stab_type |-> NoneVal]
             IN  [g EXCEPT !.layout_data = Append(@, qubit_info), !.i = @ + 1]

\* lines 185-195 and 214-224, one ancilla qubit
GenAncilla(g, letter, stab_type, coords, next_pc) ==
    IF g.i > Len(coords) THEN [g EXCEPT !.pc = next_pc, !.i = 1]
    ELSE LET row == coords[g.i][1]
             col == coords[g.i][2]
             k == IF letter = "X" THEN g.x_index ELSE g.z_index
             anc_qubit == AncLabel(letter, k)
             qubit_info == [qubit |-> anc_qubit, role |-> "anc", coords |-> <<row, col>>,
                            freq_group |-> "mid", stab_type |-> stab_type]
         IN  [g EXCEPT !.layout_data = Append(@, qubit_info),
                       !.x_index = IF letter = "X" THEN @ + 1 ELSE @,
                       !.z_index = IF letter = "Z" THEN @ + 1 ELSE @,
                       !.anc = anc_qubit, !.row = row, !.col = col, !.s = 1,
                       !.pc = IF letter = "X" THEN "x_nbr" ELSE "z_nbr"]

\* lines 198-210 and 227-239, one shift of the current ancilla
GenNeighbor(g, back_pc) ==
    IF g.s > Len(nbr_shifts) THEN [g EXCEPT !.pc = back_pc, !.i = @ + 1]
    ELSE LET distance == g.distance.val
             row_shift == nbr_shifts[g.s][1]
             col_shift == nbr_shifts[g.s][2]
             data_row == g.row + row_shift
             data_col == g.col + col_shift
         IN  IF ~is_valid(data_row, data_col, GridSize(distance)) THEN [g EXCEPT !.s = @ + 1]
             ELSE LET data_qubit == DataLabel(get_data_index(data_row, data_col, distance, 1))
                      direction == shift_direction(row_shift, col_shift)
                      inv_shifts == invert_shift(row_shift, col_shift)
                      inv_direction == shift_direction(inv_shifts[1], inv_shifts[2])
                      nd1 == SetNeighbor(g.neighbor_data, g.anc, direction, data_qubit)
                      nd2 == SetNeighbor(nd1, data_qubit, inv_direction, g.anc)
                  IN  [g EXCEPT !.neighbor_data = nd2, !.s = @ + 1,
                                !.rewrites = @ \cup Rewrites(g.neighbor_data, g.anc, direction, data_qubit)
                                               \cup Rewrites(nd1, data_qubit, inv_direction, g.anc)]

\* line 242
GenFill(g) == [g EXCEPT !.neighbor_data = add_missing_neighbours(@), !.pc = "attach"]

\* lines 245-247: reading neighbor_data[qubit] makes the defaultdict create an
\* empty dict for a qubit that has no entry yet
GenAttach(g) ==
    LET labels == {g.layout_data[k].qubit : k \in 1..Len(g.layout_data)}
    IN  [g EXCEPT !.layout_data = [k \in 1..Len(@) |->
                        Put(@[k], "neighbors", NeighborsOf(g.neighbor_data, @[k].qubit))],
                  !.neighbor_data = [q \in (DOMAIN @) \cup labels |-> NeighborsOf(@, q)],
                  !.pc = "construct"]

\* lines 134-150 and 249: the setup dictionary handed to the constructor
LayoutSetup(g) ==
    [name |-> "Rotated d-" \o ToString(g.distance.val) \o " surface code layout.",
     description |-> NoneVal,
     distance |-> g.distance.val,
     freq_order |-> <<"low", "mid", "high">>,
     interaction_order |-> [x_type |-> <<"north_east", "north_west", "south_east", "south_west">>,
                            z_type |-> <<"north_east", "south_east", "north_west", "south_west">>],
     layout |-> g.layout_data]

-----------------------------------------------------------------------------
(* networkx.DiGraph, as far as layouts/layout.py uses it: nodes in insertion *)
(* order, a dict of attributes per node, per node the successors in           *)
(* insertion order with the dict of attributes of the edge, and the dict of  *)
(* graph attributes                                                          *)

EmptyGraph ==
    [py_type |-> "DiGraph", nodes |-> << >>, node_attrs |-> << >>, adj |-> << >>, graph |-> << >>]

PyType(x) == IF "py_type" \in DOMAIN x THEN x.py_type ELSE "dict"

HasNode(G, n) == n \in Range(G.nodes)

\* DiGraph.add_node(n, **attrs)
add_node(G, n, attrs) ==
    IF HasNode(G, n) THEN [G EXCEPT !.node_attrs[n] = Update(@, attrs)]
    ELSE [G EXCEPT !.nodes = Append(@, n),
                   !.node_attrs = Put(@, n, attrs),
                   !.adj = Put(@, n, << >>)]

\* DiGraph.add_edge(u, v, **attrs)
add_edge(G, u, v, attrs) ==
    LET G1 == add_node(G, u, << >>)
        G2 == add_node(G1, v, << >>)
        old == IF OHas(G2.adj[u], v) THEN OGet(G2.adj[u], v) ELSE << >>
    IN  [G2 EXCEPT !.adj[u] = OPut(@, v, Update(old, attrs))]

\* DiGraph.out_edges(n, data=True) for one label: <<u, v, attrs>>; a label
\* that is not a node of the graph (and no character of which is) has no edges
out_edges(G, n) ==
    IF HasNode(G, n) THEN [i \in 1..Len(G.adj[n]) |-> <<n, G.adj[n][i][1], G.adj[n][i][2]>>]
    ELSE << >>

\* the directed edges of the graph with their direction tags
EdgeSet(G) ==
    UNION {{<<u, G.adj[u][i][1], G.adj[u][i][2]>> : i \in 1..Len(G.adj[u])} : u \in Range(G.nodes)}

-----------------------------------------------------------------------------
(* layouts/layout.py *)

RECURSIVE AddNeighborEdges_also_none(_, _, _, _)
\* a mutant of AddNeighborEdges: an entry that is None gets an edge as well
AddNeighborEdges_also_none(G, qubit, neighbors, i) ==
    IF i > Len(neighbors) THEN G
    ELSE AddNeighborEdges_also_none(add_edge(G, qubit, neighbors[i][2], [direction |-> neighbors[i][1]]),
                                    qubit, neighbors, i + 1)

RECURSIVE AddNeighborEdges(_, _, _, _)
\* lines 51-53
AddNeighborEdges(G, qubit, neighbors, i) ==
    IF i > Len(neighbors) THEN G
    ELSE LET direction == neighbors[i][1]
             neighbor == neighbors[i][2]
         IN  IF neighbor # NoneVal
             THEN AddNeighborEdges(add_edge(G, qubit, neighbor, [direction |-> direction]),
                                   qubit, neighbors, i + 1)
             ELSE AddNeighborEdges(G, qubit, neighbors, i + 1)

\* lines 42-53, one record of the list.  The record is popped in place, so the
\* caller's list changes as the loop goes: st.list is the list as it is left.
LoadRecord(st, i) ==
    LET qubit_attributes == st.list[i]
    IN  IF "qubit" \notin DOMAIN qubit_attributes
        THEN [st EXCEPT !.err = "ValueError: Each qubit in the layout must be labeled."]
        ELSE LET qubit == qubit_attributes.qubit
                 popped1 == Without(qubit_attributes, {"qubit"})
                 neighbors == IF "neighbors" \in DOMAIN popped1 THEN popped1.neighbors ELSE NoneVal
                 popped2 == Without(popped1, {"neighbors"})
                 G1 == add_node(st.graph, qubit, popped2)
             IN  IF neighbors = NoneVal
                 THEN [st EXCEPT !.list[i] = popped2, !.graph = G1,
                                 !.err = "AttributeError: 'NoneType' object has no attribute 'items'"]
                 ELSE [st EXCEPT !.list[i] = popped2,
                                 !.graph = AddNeighborEdges(G1, qubit, neighbors, 1)]

RECURSIVE LoadLoop(_, _)
LoadLoop(st, i) ==
    IF i > Len(st.list) \/ st.err # "ok" THEN st
    ELSE LoadLoop(LoadRecord(st, i), i + 1)

RECURSIVE RecordNodes(_, _, _)
\* the graph G with a node for each labelled record from the i-th on
RecordNodes(G, records, i) ==
    IF i > Len(records) THEN G
    ELSE IF "qubit" \in DOMAIN records[i]
         THEN RecordNodes(add_node(G, records[i].qubit, << >>), records, i + 1)
         ELSE RecordNodes(G, records, i + 1)

\* a mutant of load_layout: the qubits that have a record come first, in the
\* order of their records
load_layout_records_first(attribute_list) ==
    LoadLoop([err |-> "ok", graph |-> RecordNodes(EmptyGraph, attribute_list, 1),
              list |-> attribute_list], 1)

\* load_layout(attribute_list): [err, graph, list], list the argument as the call leaves it
load_layout(attribute_list) ==
    LoadLoop([err |-> "ok", graph |-> EmptyGraph, list |-> attribute_list], 1)

\* Layout.__init__(graph, **attrs): [err, val]
LayoutInit(graph, attrs) ==
    IF PyType(graph) # "DiGraph"
    THEN [err |-> "ValueError: graph expected as networkx.DiGraph", val |-> NoneVal]
    ELSE LET G == [graph EXCEPT !.graph = Update(@, attrs)]
             qubits == G.nodes
         IN  [err |-> "ok",
              val |-> [py_type |-> "Layout", graph |-> G,
                       qubit_inds |-> [q \in Range(qubits) |-> IndexOf(qubits, q) - 1]]]

\* Layout.from_dict(attributes): [err, val, arg, list], arg the argument and
\* list its list of records as the call leaves them
from_dict(attributes) ==
    IF "layout" \notin DOMAIN attributes
    THEN [err |-> "KeyError: 'layout'", val |-> NoneVal, arg |-> attributes, list |-> << >>]
    ELSE LET attribute_list == attributes.layout
             rest == Without(attributes, {"layout"})
             loaded == load_layout(attribute_list)
         IN  IF loaded.err # "ok"
             THEN [err |-> loaded.err, val |-> NoneVal, arg |-> rest, list |-> loaded.list]
             ELSE LET made == LayoutInit(loaded.graph, rest)
                  IN  [err |-> made.err, val |-> made.val, arg |-> rest, list |-> loaded.list]

RECURSIVE AdjNeighbors(_, _, _)
\* lines 148-150
AdjNeighbors(adj_view, neighbors, i) ==
    IF i > Len(adj_view) THEN [err |-> "ok", val |-> neighbors]
    ELSE LET nbr_node == adj_view[i][1]
             edge_attrs == adj_view[i][2]
         IN  IF "direction" \notin DOMAIN edge_attrs
             THEN [err |-> "KeyError: 'direction'", val |-> NoneVal]
             ELSE AdjNeighbors(adj_view, OPut(neighbors, edge_attrs.direction, nbr_node), i + 1)

\* a mutant of NodeRecord: the record starts from an empty dict, not from a
\* copy of the node's attributes
NodeRecord_no_attrs(G, node) ==
    LET nb == AdjNeighbors(G.adj[node], << >>, 1)
    IN  IF nb.err # "ok" THEN nb
        ELSE [err |-> "ok", val |-> [qubit |-> node, neighbors |-> FillMissing(nb.val, 1)]]

\* lines 141-157, one node
NodeRecord(G, node) ==
    LET attributes == Put(G.node_attrs[node], "qubit", node)
        nb == AdjNeighbors(G.adj[node], << >>, 1)
    IN  IF nb.err # "ok" THEN nb
        ELSE [err |-> "ok", val |-> Put(attributes, "neighbors", FillMissing(nb.val, 1))]

\* Layout.to_dict(): [err, val]
to_dict(L) ==
    LET G == L.graph
        recs == [i \in 1..Len(G.nodes) |-> NodeRecord(G, G.nodes[i])]
    IN  IF \E i \in 1..Len(recs) : recs[i].err # "ok"
        THEN [err |-> recs[CHOOSE i \in 1..Len(recs) :
                            recs[i].err # "ok" /\ \A j \in 1..(i - 1) : recs[j].err = "ok"].err,
              val |-> NoneVal]
        ELSE [err |-> "ok", val |-> [layout |-> [i \in 1..Len(recs) |-> recs[i].val]]]

\* Layout.get_inds(qubits): [err, val]
get_inds(L, qubits) ==
    IF \E i \in 1..Len(qubits) : qubits[i] \notin DOMAIN L.qubit_inds
    THEN [err |-> "KeyError", val |-> NoneVal]
    ELSE [err |-> "ok", val |-> [i \in 1..Len(qubits) |-> L.qubit_inds[qubits[i]]]]

RECURSIVE ValidFrom(_, _, _)
\* lines 445-449: the conditions are read in keyword order, and the loop
\* returns at the first one that fails
ValidFrom(attrs, conditions, i) ==
    IF i > Len(conditions) THEN [err |-> "ok", val |-> TRUE]
    ELSE LET key == conditions[i][1]
             val == conditions[i][2]
         IN  IF key \notin DOMAIN attrs THEN [err |-> "KeyError", val |-> NoneVal]
             ELSE IF attrs[key] = NoneVal \/ attrs[key] # val THEN [err |-> "ok", val |-> FALSE]
             ELSE ValidFrom(attrs, conditions, i + 1)

\* valid_attrs(attrs, **conditions): [err, val]; the keyword arguments are the
\* <<key, value>> pairs in the order given
valid_attrs(attrs, conditions) == ValidFrom(attrs, conditions, 1)

\* Layout.get_qubits() with no conditions
get_qubits(L) == L.graph.nodes

\* a mutant of get_qubits_where: the conditions are not looked at
get_qubits_where_all(L, conds) == [err |-> "ok", val |-> L.graph.nodes]

\* Layout.get_qubits(**conds): [err, val]
get_qubits_where(L, conds) ==
    IF conds # << >>
    THEN LET G == L.graph
             checks == [i \in 1..Len(G.nodes) |-> valid_attrs(G.node_attrs[G.nodes[i]], conds)]
         IN  IF \E i \in 1..Len(checks) : checks[i].err # "ok"
             THEN [err |-> "KeyError", val |-> NoneVal]
             ELSE [err |-> "ok", val |-> SelectSeq(G.nodes, LAMBDA node : checks[IndexOf(G.nodes, node)].val)]
    ELSE [err |-> "ok", val |-> get_qubits(L)]

\* Layout.get_neighbors(qubit) for one label, direction None
get_neighbors(L, qubit) ==
    LET edge_view == out_edges(L.graph, qubit)
    IN  [i \in 1..Len(edge_view) |-> edge_view[i][2]]

\* Layout.__copy__()
layout_copy(L) == LayoutInit(L.graph, << >>).val

\* Layout.set_param(param, qubit, value): [err, val]
set_param(L, param, qubit, value) ==
    IF ~HasNode(L.graph, qubit) THEN [err |-> "KeyError", val |-> L]
    ELSE [err |-> "ok", val |-> [L EXCEPT !.graph.node_attrs[qubit] = Put(@, param, value)]]

\* the Python int i as a node label: the decimal numeral, which no string label
\* of the model is
IntLabel(i) == ToString(i)

\* networkx.relabel_nodes(G, mapping), mapping defined on every node
relabel_nodes(G, mapping) ==
    LET inv(m) == CHOOSE n \in Range(G.nodes) : mapping[n] = m
        new == {mapping[n] : n \in Range(G.nodes)}
    IN  [G EXCEPT !.nodes = [i \in 1..Len(G.nodes) |-> mapping[G.nodes[i]]],
                  !.node_attrs = [m \in new |-> G.node_attrs[inv(m)]],
                  !.adj = [m \in new |-> [i \in 1..Len(G.adj[inv(m)]) |->
                                <<mapping[G.adj[inv(m)][i][1]], G.adj[inv(m)][i][2]>>]]]

\* a mutant of index_nodes: the new labels are numbered from 1
index_nodes_from_one(nodes) == [n \in Range(nodes) |-> IntLabel(IndexOf(nodes, n))]

\* lines 241-246: dict(zip(nodes, range(len(nodes))))
index_nodes(nodes) == [n \in Range(nodes) |-> IntLabel(IndexOf(nodes, n) - 1)]

\* Layout.index_qubits(), with the graph objects the call touches kept apart:
\* the receiver's graph, its copy made by __copy__ (line 104) and the graph
\* relabel_nodes returns, a new one as copy is left True.  [self, val]: the
\* receiver as the call leaves it, and the Layout returned.
index_qubits_call(L) ==
    LET indexed_layout == layout_copy(L)
        heap0 == [self_graph |-> L.graph, copy_graph |-> indexed_layout.graph]
        nodes == heap0.self_graph.nodes
        mapping == index_nodes(nodes)
        heap1 == Put(heap0, "relabled_graph", relabel_nodes(heap0.copy_graph, mapping))
        heap2 == [heap1 EXCEPT !.relabled_graph.node_attrs =
                     [m \in DOMAIN @ |-> Put(@[m], "name", CHOOSE n \in Range(nodes) : mapping[n] = m)]]
    IN  [self |-> [L EXCEPT !.graph = heap2.self_graph],
         val |-> [indexed_layout EXCEPT !.graph = heap2.relabled_graph]]

\* Layout.index_qubits(): the Layout returned
index_qubits(L) == index_qubits_call(L).val

\* set(coords) as CPython builds it, for coordinates that are integers from 0
\* to 31.  The hash of such an integer is the integer.  The table has 8 slots
\* while it holds at most 4 keys: a key goes to the slot hash & 7, and on a
\* collision to slot (5 * i + 1 + perturb) & 7, perturb being hash >> 5, then
\* perturb >> 5, ...  The table is a function from the slots in use to keys.
RECURSIVE SetProbe(_, _, _, _)
SetProbe(table, key, i, perturb) ==
    IF i \notin DOMAIN table THEN Put(table, i, key)
    ELSE IF table[i] = key THEN table
    ELSE LET shifted == perturb \div 32
         IN  SetProbe(table, key, (5 * i + 1 + shifted) % 8, shifted)

RECURSIVE SetTable(_, _)
\* the table after the first n items of the sequence have been added
SetTable(items, n) ==
    IF n = 0 THEN << >>
    ELSE SetProbe(SetTable(items, n - 1), items[n], items[n] % 8, items[n])

RECURSIVE SlotOrder(_, _)
\* the keys of the table from slot i on, in slot order
SlotOrder(table, i) ==
    IF i > 7 THEN << >>
    ELSE (IF i \in DOMAIN table THEN <<table[i]>> ELSE << >>) \o SlotOrder(table, i + 1)

RECURSIVE Ascending(_)
Ascending(S) ==
    IF S = {} THEN << >>
    ELSE LET least == CHOOSE x \in S : \A y \in S : x <= y
         IN  <<least>> \o Ascending(S \ {least})

\* the items of set(coords) in the order iteration yields them: the slot order
\* of the table.  The fifth key makes the table grow to 32 slots, where every
\* integer from 0 to 31 has a slot of its own.
PySet(items) ==
    IF Cardinality(Range(items)) <= 4 THEN SlotOrder(SetTable(items, Len(items)), 0)
    ELSE Ascending(Range(items))

\* lines 471-474: reversed(range(n)) or range(n)
unique_inds(num_unique_vals, reverse) ==
    IF reverse THEN [i \in 1..num_unique_vals |-> num_unique_vals - i]
    ELSE [i \in 1..num_unique_vals |-> i - 1]

\* index_coords(coords, reverse): <<indicies, num_unique_vals>>
index_coords(coords, reverse) ==
    LET unique_vals == PySet(coords)
        num_unique_vals == Len(unique_vals)
        inds == unique_inds(num_unique_vals, reverse)
        mapping == [v \in Range(unique_vals) |-> inds[IndexOf(unique_vals, v)]]
    IN  <<[k \in 1..Len(coords) |-> mapping[coords[k]]], num_unique_vals>>

\* Layout.expansion_matrix(): [err, val], val the DataArray, its data a function
\* of the index <<anc, channel, row, col>>
expansion_matrix(L) ==
    LET G == L.graph
    IN  IF \E q \in Range(G.nodes) : "role" \notin DOMAIN G.node_attrs[q]
        THEN [err |-> "KeyError: 'role'", val |-> NoneVal]
        ELSE LET anc_qubits == SelectSeq(G.nodes, LAMBDA node : G.node_attrs[node].role = "anc")
             IN  IF \E q \in Range(anc_qubits) : "coords" \notin DOMAIN G.node_attrs[q]
                 THEN [err |-> "KeyError: 'coords'", val |-> NoneVal]
                 ELSE IF anc_qubits = << >>
                 THEN [err |-> "ValueError: not enough values to unpack", val |-> NoneVal]
                 ELSE LET coords == [k \in 1..Len(anc_qubits) |-> G.node_attrs[anc_qubits[k]].coords]
                          rows == [k \in 1..Len(coords) |-> coords[k][1]]
                          cols == [k \in 1..Len(coords) |-> coords[k][2]]
                          row_ix == index_coords(rows, TRUE)
                          col_ix == index_coords(cols, FALSE)
                          row_inds == row_ix[1]
                          num_rows == row_ix[2]
                          col_inds == col_ix[1]
                          num_cols == col_ix[2]
                          num_anc == Len(anc_qubits)
                          tensor == [ix \in (0..(num_anc - 1)) \X (0..(num_rows - 1)) \X (0..(num_cols - 1)) |->
                                        \E k \in 1..num_anc : ix = <<k - 1, row_inds[k], col_inds[k]>>]
                          expanded_tensor == [ix \in (0..(num_anc - 1)) \X {0} \X (0..(num_rows - 1))
                                                        \X (0..(num_cols - 1)) |->
                                                tensor[<<ix[1], ix[3], ix[4]>>]]
                      IN  [err |-> "ok",
                           val |-> [dims |-> <<"anc_qubit", "channel", "row", "col">>,
                                    shape |-> <<num_anc, 1, num_rows, num_cols>>,
                                    anc_qubit |-> anc_qubits,
                                    data |-> expanded_tensor]]

\* Layout.adjacency_matrix(): the entry of (u, v) is the weight of the edge from
\* u to v, 1 as no edge has a weight attribute, and 0 without an edge
adjacency_matrix(L) ==
    LET G == L.graph
        qubits == get_qubits(L)
    IN  [from_qubit |-> qubits, to_qubit |-> qubits,
         data |-> [uv \in Range(qubits) \X Range(qubits) |->
                      IF OHas(G.adj[uv[1]], uv[2]) THEN 1 ELSE 0]]

\* Layout.projection_matrix(stab_type): [err, val]
projection_matrix(L, stab_type) ==
    LET adj_mat == adjacency_matrix(L)
        anc_qubits == get_qubits_where(L, << <<"role", "anc">>, <<"stab_type", stab_type>> >>)
        data_qubits == get_qubits_where(L, << <<"role", "data">> >>)
    IN  IF anc_qubits.err # "ok" THEN anc_qubits
        ELSE IF data_qubits.err # "ok" THEN data_qubits
        ELSE [err |-> "ok",
              val |-> [data_qubit |-> data_qubits.val, anc_qubit |-> anc_qubits.val,
                       data |-> [uv \in Range(data_qubits.val) \X Range(anc_qubits.val) |->
                                    adj_mat.data[uv]]]]

-----------------------------------------------------------------------------
(* rot_surf_code, step by step *)

\* line 250: the setup dictionary is handed to Layout.__init__ as its graph
GenConstruct(g) ==
    LET made == LayoutInit(LayoutSetup(g), << >>)
    IN  IF made.err # "ok" THEN [g EXCEPT !.pc = "error", !.err = made.err]
        ELSE [g EXCEPT !.pc = "done", !.result = made.val]

\* one step of the call, by its position
GenStep(g) ==
    CASE g.pc = "check" -> GenCheck(g)
      [] g.pc = "data" -> GenData(g)
      [] g.pc = "x_anc" -> GenAncilla(g, "X", "x_type", XCoords(GridSize(g.distance.val)), "z_anc")
      [] g.pc = "x_nbr" -> GenNeighbor(g, "x_anc")
      [] g.pc = "z_anc" -> GenAncilla(g, "Z", "z_type", ZCoords(GridSize(g.distance.val)), "fill")
      [] g.pc = "z_nbr" -> GenNeighbor(g, "z_anc")
      [] g.pc = "fill" -> GenFill(g)
      [] g.pc = "attach" -> GenAttach(g)
      [] g.pc = "construct" -> GenConstruct(g)

RECURSIVE GenRunTo(_, _)
\* the call run from g up to the position pc, or to its end
GenRunTo(g, pc) ==
    IF g.pc \in {pc, "done", "error"} THEN g ELSE GenRunTo(GenStep(g), pc)

DistanceInputs ==
    {[kind |-> "int", val |-> v] : v \in (-2)..MaxDistance} \cup {[kind |-> "float", val |-> 3]}

GenInit ==
    /\ gen \in {GenStart(distance) : distance \in DistanceInputs}
    /\ setup = Idle /\ layout = Idle /\ origin = Idle
    /\ dumped = Idle /\ reloaded = Idle /\ query = Idle
    /\ circ = Idle

CheckDistance ==
    /\ gen.pc = "check"
    /\ gen' = GenStep(gen)
    /\ UNCHANGED <<layVars, circVars>>

AddDataQubit ==
    /\ gen.pc = "data"
    /\ gen' = GenStep(gen)
    /\ UNCHANGED <<layVars, circVars>>

AddXAncilla ==
    /\ gen.pc = "x_anc"
    /\ gen' = GenStep(gen)
    /\ UNCHANGED <<layVars, circVars>>

AddXNeighbor ==
    /\ gen.pc = "x_nbr"
    /\ gen' = GenStep(gen)
    /\ UNCHANGED <<layVars, circVars>>

AddZAncilla ==
    /\ gen.pc = "z_anc"
    /\ gen' = GenStep(gen)
    /\ UNCHANGED <<layVars, circVars>>

AddZNeighbor ==
    /\ gen.pc = "z_nbr"
    /\ gen' = GenStep(gen)
    /\ UNCHANGED <<layVars, circVars>>

FillNeighbors ==
    /\ gen.pc = "fill"
    /\ gen' = GenStep(gen)
    /\ UNCHANGED <<layVars, circVars>>

AttachNeighbors ==
    /\ gen.pc = "attach"
    /\ gen' = GenStep(gen)
    /\ UNCHANGED <<layVars, circVars>>

ConstructLayout ==
    /\ gen.pc = "construct"
    /\ gen' = GenStep(gen)
    /\ UNCHANGED <<layVars, circVars>>

GenNext ==
    \/ CheckDistance
    \/ AddDataQubit
    \/ AddXAncilla
    \/ AddXNeighbor
    \/ AddZAncilla
    \/ AddZNeighbor
    \/ FillNeighbors
    \/ AttachNeighbors
    \/ ConstructLayout

GenSpec == GenInit /\ [][GenNext]_vars

-----------------------------------------------------------------------------
(* Claims about rot_surf_code, checked under GenSpec *)

\* every record of the call has been appended to layout_data
Generated == gen.pc \in {"fill", "attach", "construct", "done"}

ValidDistance == IsInt(gen.distance) /\ gen.distance.val > 0 /\ gen.distance.val % 2 = 1

RecordsWith(key, value) ==
    {k \in 1..Len(gen.layout_data) : gen.layout_data[k][key] = value}

GenLabels == {gen.layout_data[k].qubit : k \in 1..Len(gen.layout_data)}

\* C4: once rot_surf_code(d) has generated its records, d*d of them have role
\* data, (d*d-1)/2 have stab_type x_type and (d*d-1)/2 have stab_type z_type,
\* and their labels are the 2*d*d-1 pairwise distinct labels D1..D(d*d),
\* X1..X((d*d-1)/2), Z1..Z((d*d-1)/2).
C4_RecordCounts ==
    Generated =>
        LET d == gen.distance.val
            half == (d * d - 1) \div 2
        IN  /\ Cardinality(RecordsWith("role", "data")) = d * d
            /\ Cardinality(RecordsWith("stab_type", "x_type")) = half
            /\ Cardinality(RecordsWith("stab_type", "z_type")) = half
            /\ Cardinality(RecordsWith("role", "anc")) = d * d - 1
            /\ Len(gen.layout_data) = 2 * d * d - 1
            /\ Cardinality(GenLabels) = 2 * d * d - 1
            /\ GenLabels = {DataLabel(k) : k \in 1..(d * d)}
                             \cup {AncLabel("X", k) : k \in 1..half}
                             \cup {AncLabel("Z", k) : k \in 1..half}

C4_Witness == Generated /\ gen.distance.val = 5 /\ Len(gen.layout_data) = 49

Opposite(direction) ==
    CASE direction = "north_east" -> "south_west"
      [] direction = "south_west" -> "north_east"
      [] direction = "north_west" -> "south_east"
      [] direction = "south_east" -> "north_west"

\* C5: at every point of rot_surf_code(d), whenever the neighbors entry of
\* qubit A for a direction is qubit B, the entry of B for the opposite
\* direction is A, and no entry has been written twice with two different
\* qubits.
C5_NeighborsSymmetric ==
    /\ \A A \in DOMAIN gen.neighbor_data :
        \A i \in 1..Len(gen.neighbor_data[A]) :
            LET direction == gen.neighbor_data[A][i][1]
                B == gen.neighbor_data[A][i][2]
            IN  B # NoneVal =>
                    /\ B \in DOMAIN gen.neighbor_data
                    /\ OHas(gen.neighbor_data[B], Opposite(direction))
                    /\ OGet(gen.neighbor_data[B], Opposite(direction)) = A
    /\ gen.rewrites = {}

C5_Witness ==
    /\ Generated /\ gen.distance.val = 3
    /\ OGet(gen.neighbor_data["X1"], "north_west") = "D1"
    /\ OGet(gen.neighbor_data["D1"], "south_east") = "X1"

\* C6: for every positive odd integer d, rot_surf_code(d) does not raise, and
\* what it returns is a Layout whose qubits are the generated records; for
\* d = 1 that is the one data qubit D1.
C6_Completes ==
    /\ ValidDistance => gen.pc # "error"
    /\ gen.pc = "done" =>
        /\ PyType(gen.result) = "Layout"
        /\ Range(get_qubits(gen.result)) = GenLabels
        /\ gen.distance.val = 1 => get_qubits(gen.result) = <<"D1">>

\* C7: rot_surf_code(distance) raises a ValueError, with no qubit record built,
\* when distance is not an integer, is even or is negative, and raises no
\* ValueError when distance is a positive odd integer.
C7_DistanceValidated ==
    /\ (~ValidDistance /\ gen.pc # "check") =>
            gen.pc = "error" /\ gen.err # "ok" /\ gen.layout_data = << >>
    /\ ValidDistance => gen.err = "ok"

\* C19: once rot_surf_code(d), d odd and positive, has attached the neighbors
\* to its records, every record has a neighbors mapping with the four keys
\* north_east, north_west, south_east and south_west (the value None where the
\* qubit has no neighbor).
C19_FourDirections ==
    (ValidDistance /\ gen.pc \in {"construct", "done", "error"}) =>
        \A k \in 1..Len(gen.layout_data) :
            /\ "neighbors" \in DOMAIN gen.layout_data[k]
            /\ Range(OKeys(gen.layout_data[k].neighbors)) = Range(Directions)

-----------------------------------------------------------------------------
(* The Layout class, driven by a caller: a Layout is made from a mapping,    *)
(* changed by set_param, copied, indexed, asked for indices and for qubits,  *)
(* dumped by to_dict and made again from what was dumped.  The caller keeps  *)
(* the last result only: the result of a query, or a dump and the Layout     *)
(* reloaded from it.                                                         *)

\* The per-qubit records a caller may list.  A and B have records, C is named
\* as a neighbor only.
RecordInputs ==
    { [qubit |-> "A", role |-> "data", stab_type |-> NoneVal,
       neighbors |-> << <<"north_east", "B">> >>],
      \* two directions naming the same neighbor
      [qubit |-> "A", role |-> "anc", stab_type |-> "x_type",
       neighbors |-> << <<"north_east", "B">>, <<"south_west", "B">> >>],
      \* a neighbor that has no record, named before one that has
      [qubit |-> "A", role |-> "anc", stab_type |-> "z_type",
       neighbors |-> << <<"south_west", "C">>, <<"north_east", "B">> >>],
      \* a direction with no neighbor
      [qubit |-> "B", role |-> "anc", stab_type |-> "x_type",
       neighbors |-> << <<"north_east", NoneVal>>, <<"south_west", "A">> >>],
      \* a record with no neighbors key
      [qubit |-> "B", role |-> "data", stab_type |-> NoneVal],
      \* a record with no qubit key
      [role |-> "data", stab_type |-> NoneVal, neighbors |-> << <<"north_east", "B">> >>] }

\* the graph-level keys of the plain-mapping format
TopAttrs ==
    [name |-> "two qubits", description |-> NoneVal, distance |-> 3,
     freq_order |-> <<"low", "mid", "high">>,
     interaction_order |-> <<"north_east", "north_west", "south_east", "south_west">>]

SetupInputs ==
    {Put(TopAttrs, "layout", recs) : recs \in UNION {[1..n -> RecordInputs] : n \in 0..MaxRecords}}

\* the (param, qubit, value) triples a caller passes to set_param: a role for
\* the qubit that has no record, and an attribute named qubit
ParamInputs == {<<"role", "C", "anc">>, <<"qubit", "A", "x">>}

\* the labels a caller asks get_inds about
LabelInputs == {"A", "C", IntLabel(0)}

\* the keyword arguments a caller passes to get_qubits, in the order given
CondInputs ==
    { << >>,
      << <<"role", "anc">>, <<"stab_type", "x_type">> >>,
      << <<"role", "data">>, <<"stab_type", "x_type">> >>,
      << <<"stab_type", NoneVal>> >> }

LayInit ==
    /\ setup \in {[top |-> m, records |-> m.layout] : m \in SetupInputs}
    /\ layout = Idle /\ origin = Idle
    /\ dumped = Idle /\ reloaded = Idle /\ query = Idle
    /\ gen = Idle /\ circ = Idle

\* layout = Layout.from_dict(setup)
FromDict ==
    /\ layout.pc = "idle"
    /\ LET r == from_dict(setup.top)
       IN  /\ layout' = [pc |-> IF r.err = "ok" THEN "made" ELSE "failed", err |-> r.err, val |-> r.val]
           /\ setup' = [top |-> r.arg, records |-> r.list]
           /\ origin' = [given |-> setup.top,
                         nodes |-> IF r.err = "ok" THEN r.val.graph.nodes ELSE << >>,
                         self |-> Idle]
    /\ UNCHANGED <<dumped, reloaded, query, genVars, circVars>>

\* layout.set_param(param, qubit, value)
SetParam ==
    /\ layout.pc = "made"
    /\ \E pqv \in ParamInputs :
          LET r == set_param(layout.val, pqv[1], pqv[2], pqv[3])
          IN  /\ layout' = [layout EXCEPT !.val = r.val]
              /\ IF r.val = layout.val
                 THEN UNCHANGED <<dumped, reloaded, origin>>
                 ELSE /\ dumped' = Idle /\ reloaded' = Idle
                      /\ origin' = [origin EXCEPT !.self = Idle]
    /\ UNCHANGED <<setup, query, genVars, circVars>>

\* layout = copy(layout)
Copy ==
    /\ layout.pc = "made"
    /\ layout' = [layout EXCEPT !.val = layout_copy(layout.val)]
    /\ origin' = [origin EXCEPT !.nodes = layout.val.graph.nodes, !.self = Idle]
    /\ dumped' = Idle /\ reloaded' = Idle /\ query' = Idle
    /\ UNCHANGED <<setup, genVars, circVars>>

\* layout = layout.index_qubits(): the instance is the copy made at line 240.
\* While the instance is as the call returned it, origin.self keeps the
\* receiver: as it was before the call, and as the call left it.
IndexQubits ==
    /\ layout.pc = "made"
    /\ layout' = [layout EXCEPT !.val = index_qubits_call(layout.val).val]
    /\ origin' = [origin EXCEPT !.nodes = layout.val.graph.nodes,
                                !.self = [pc |-> "indexed", before |-> layout.val,
                                          after |-> index_qubits_call(layout.val).self]]
    /\ dumped' = Idle /\ reloaded' = Idle /\ query' = Idle
    /\ UNCHANGED <<setup, genVars, circVars>>

\* query = layout.get_inds([qubit])
GetInds ==
    /\ layout.pc = "made"
    /\ \E qubit \in LabelInputs :
          LET r == get_inds(layout.val, <<qubit>>)
          IN  query' = [pc |-> "asked", arg |-> <<qubit>>, err |-> r.err, val |-> r.val]
    /\ dumped' = Idle /\ reloaded' = Idle
    /\ UNCHANGED <<setup, layout, origin, genVars, circVars>>

\* query = layout.get_qubits(**conds)
GetQubits ==
    /\ layout.pc = "made"
    /\ \E conds \in CondInputs :
          LET r == get_qubits_where(layout.val, conds)
          IN  query' = [pc |-> "filtered", arg |-> conds, on |-> layout.val,
                        err |-> r.err, val |-> r.val]
    /\ dumped' = Idle /\ reloaded' = Idle
    /\ UNCHANGED <<setup, layout, origin, genVars, circVars>>

\* dumped = layout.to_dict()
ToDict ==
    /\ layout.pc = "made"
    /\ LET r == to_dict(layout.val)
       IN  dumped' = [pc |-> "made", err |-> r.err, val |-> r.val]
    /\ reloaded' = Idle /\ query' = Idle
    /\ UNCHANGED <<setup, layout, origin, genVars, circVars>>

\* reloaded = Layout.from_dict(dumped)
Reload ==
    /\ dumped.pc = "made" /\ dumped.err = "ok"
    /\ reloaded.pc = "idle"
    /\ LET r == from_dict(dumped.val)
       IN  reloaded' = [pc |-> IF r.err = "ok" THEN "made" ELSE "failed", err |-> r.err, val |-> r.val]
    /\ UNCHANGED <<setup, layout, origin, dumped, query, genVars, circVars>>

LayNext ==
    \/ FromDict
    \/ SetParam
    \/ Copy
    \/ IndexQubits
    \/ GetInds
    \/ GetQubits
    \/ ToDict
    \/ Reload

LaySpec == LayInit /\ [][LayNext]_vars

-----------------------------------------------------------------------------
(* Claims about the Layout class, checked under LaySpec *)

Qubits(L) == Range(L.graph.nodes)

SameQubits(L1, L2) == Qubits(L1) = Qubits(L2)

SameAttributes(L1, L2) ==
    \A q \in Qubits(L1) \cap Qubits(L2) : L1.graph.node_attrs[q] = L2.graph.node_attrs[q]

SameNeighbors(L1, L2) == EdgeSet(L1.graph) = EdgeSet(L2.graph)

\* no qubit has two outgoing edges with the same direction tag
DistinctDirections(L) ==
    \A u \in Qubits(L) : \A i, j \in 1..Len(L.graph.adj[u]) :
        i # j => L.graph.adj[u][i][2] # L.graph.adj[u][j][2]

\* no qubit carries an attribute named as a key of the record format
NoReservedAttrs(L) ==
    \A q \in Qubits(L) : (DOMAIN L.graph.node_attrs[q]) \cap {"qubit", "neighbors"} = {}

C9_TopLevelKeysKept ==
    (/\ dumped.pc = "made" /\ dumped.err = "ok"
     /\ layout.val = from_dict(origin.given).val) =>
        \A k \in DOMAIN origin.given :
            k \in DOMAIN dumped.val /\ dumped.val[k] = origin.given[k]

\* C10: get_inds maps every qubit of the layout to its position in the
\* ordering fixed when the instance was constructed, fails with a lookup error
\* for a label that is not a qubit of the layout, and a result once returned is
\* what the instance returns for the same labels at any later time.
C10_GetIndsStable ==
    layout.pc = "made" =>
        /\ \A q \in LabelInputs \cup Qubits(layout.val) :
              LET r == get_inds(layout.val, <<q>>)
              IN  IF q \in Qubits(layout.val)
                  THEN r.err = "ok" /\ r.val = <<IndexOf(origin.nodes, q) - 1>>
                  ELSE r.err = "KeyError"
        /\ query.pc = "asked" =>
              LET r == get_inds(layout.val, query.arg)
              IN  r.err = query.err /\ r.val = query.val

\* the qubit q of the graph G stores, for the i-th condition, a value that is
\* not None and equals the condition's value
CondHolds(G, conds, q, i) ==
    LET key == conds[i][1]
    IN  /\ key \in DOMAIN G.node_attrs[q]
        /\ G.node_attrs[q][key] # NoneVal
        /\ G.node_attrs[q][key] = conds[i][2]

\* C11, as stated: get_qubits(**conditions) returns, in the order of the
\* layout's qubits, exactly the qubits that store, for every condition key, a
\* value that is not None and equals the condition's value (so a qubit that
\* stores None for a key is left out, also when the condition's value is
\* None); with no conditions it returns every qubit.
C11_GetQubitsAnyLayout ==
    query.pc = "filtered" =>
        LET G == query.on.graph
            Matches(q) == \A i \in 1..Len(query.arg) : CondHolds(G, query.arg, q, i)
        IN  /\ query.err = "ok"
            /\ query.val = SelectSeq(G.nodes, Matches)
            /\ query.arg = << >> => query.val = G.nodes

\* C11, amended: each qubit is tested against the conditions in the order
\* given, up to the first one it fails.  When a qubit stores nothing for a
\* condition key it is tested against, get_qubits raises a KeyError; otherwise
\* it returns, in the order of the layout's qubits, exactly the qubits that
\* store for every condition key a value that is not None and equals the
\* condition's value, and with no conditions every qubit.
C11_GetQubitsFilter ==
    query.pc = "filtered" =>
        LET G == query.on.graph
            Matches(q) == \A i \in 1..Len(query.arg) : CondHolds(G, query.arg, q, i)
            Lacks(q) ==
                \E i \in 1..Len(query.arg) :
                    /\ query.arg[i][1] \notin DOMAIN G.node_attrs[q]
                    /\ \A j \in 1..(i - 1) : CondHolds(G, query.arg, q, j)
        IN  IF \E q \in Range(G.nodes) : Lacks(q)
            THEN query.err = "KeyError"
            ELSE /\ query.err = "ok"
                 /\ query.val = SelectSeq(G.nodes, Matches)
                 /\ query.arg = << >> => query.val = G.nodes

\* the condition stab_type=None asked of a layout of two qubits, one that
\* stores None as its stab_type and one that stores x_type: no qubit is returned
C11_Witness ==
    /\ query.pc = "filtered" /\ query.err = "ok"
    /\ query.arg = << <<"stab_type", NoneVal>> >>
    /\ query.on.graph.nodes = <<"A", "B">>
    /\ query.on.graph.node_attrs["A"].stab_type = NoneVal
    /\ query.on.graph.node_attrs["B"].stab_type = "x_type"
    /\ query.val = << >>

\* what index_qubits must return for the Layout orig, and leave of it: new is
\* the Layout returned, self the receiver after the call
Indexed(orig, new, self) ==
    LET nodes == orig.graph.nodes
        N == Len(nodes)
        Ind(q) == IntLabel(IndexOf(nodes, q) - 1)
    IN  /\ PyType(new) = "Layout"
        /\ new.graph.nodes = [i \in 1..N |-> IntLabel(i - 1)]
        /\ \A i \in 1..N :
              LET attrs == new.graph.node_attrs[IntLabel(i - 1)]
              IN  /\ "name" \in DOMAIN attrs /\ attrs.name = nodes[i]
                  /\ Without(attrs, {"name"}) = Without(orig.graph.node_attrs[nodes[i]], {"name"})
        /\ EdgeSet(new.graph) = {<<Ind(e[1]), Ind(e[2]), e[3]>> : e \in EdgeSet(orig.graph)}
        /\ self.graph.nodes = nodes
        /\ self.graph.node_attrs = orig.graph.node_attrs
        /\ EdgeSet(self.graph) = EdgeSet(orig.graph)

\* C12: a call of index_qubits returns a new Layout whose qubits are the
\* integers 0..N-1 in order, integer i standing for the i-th qubit of the
\* receiver and storing that qubit's label as its name attribute, with every
\* other attribute, every edge and every direction tag of the receiver; the
\* receiver's qubits, attributes and edges are as they were before the call.
C12_IndexQubits ==
    (layout.pc = "made" /\ origin.self.pc = "indexed") =>
        Indexed(origin.self.before, layout.val, origin.self.after)

\* three qubits A, B, C indexed as 0, 1, 2, an edge of A now an edge of 0
C12_Witness ==
    /\ layout.pc = "made" /\ origin.self.pc = "indexed"
    /\ origin.self.after.graph.nodes = <<"A", "B", "C">>
    /\ layout.val.graph.nodes = <<IntLabel(0), IntLabel(1), IntLabel(2)>>
    /\ layout.val.graph.node_attrs[IntLabel(2)].name = "C"
    /\ <<IntLabel(0), IntLabel(2), [direction |-> "south_west"]>> \in EdgeSet(layout.val.graph)

\* the Layout is as from_dict made it of the mapping the caller gave
AsLoaded == layout.pc = "made" /\ layout.val = from_dict(origin.given).val

\* the entries <<A, d, B>> of the records given: a record of qubit A lists B,
\* not None, as its neighbor in direction d
NeighborEntries(records) ==
    UNION {{<<records[k].qubit, records[k].neighbors[i][1], records[k].neighbors[i][2]>> :
                i \in {j \in 1..Len(records[k].neighbors) : records[k].neighbors[j][2] # NoneVal}} :
           k \in 1..Len(records)}

\* the edges the entries stand for
EntryEdges(entries) == {<<e[1], e[3], [direction |-> e[2]]>> : e \in entries}

\* no qubit's records list the same neighbor in two directions
OneDirectionPerNeighbor(entries) ==
    \A e, f \in entries : (e[1] = f[1] /\ e[3] = f[3]) => e[2] = f[2]

\* C18: from_dict raises a ValueError, and makes no Layout, whenever a record
\* of the layout list has no qubit key.
C18_UnlabeledRejected ==
    (/\ layout.pc \in {"made", "failed"}
     /\ \E i \in 1..Len(origin.given.layout) : "qubit" \notin DOMAIN origin.given.layout[i]) =>
        /\ layout.pc = "failed"
        /\ layout.err = "ValueError: Each qubit in the layout must be labeled."

\* C20, as stated: in the Layout from_dict makes, there is an edge from A to B
\* tagged d if and only if a record of A lists B, not None, as its neighbor in
\* direction d.
C20_EdgeIffEntryAnyRecords ==
    AsLoaded => EdgeSet(layout.val.graph) = EntryEdges(NeighborEntries(origin.given.layout))

\* C20, amended: in the Layout from_dict makes, every edge from A to B tagged d
\* stands for an entry of a record of A that lists B in direction d, there is
\* one edge from A to B for every pair such that a record of A lists B, an
\* entry that is None gives no edge, and when no qubit's records list the same
\* neighbor in two directions there is an edge from A to B tagged d if and
\* only if a record of A lists B as its neighbor in direction d.
C20_EdgeIffEntry ==
    AsLoaded =>
        LET entries == NeighborEntries(origin.given.layout)
            edges == EdgeSet(layout.val.graph)
        IN  /\ edges \subseteq EntryEdges(entries)
            /\ {<<e[1], e[2]>> : e \in edges} = {<<e[1], e[3]>> : e \in entries}
            /\ \A e, f \in edges : (e[1] = f[1] /\ e[2] = f[2]) => e = f
            /\ \A e \in edges : e[2] # NoneVal
            /\ OneDirectionPerNeighbor(entries) => edges = EntryEdges(entries)

\* A lists C and B, B lists None and A: three edges, none for the None entry
C20_Witness ==
    /\ AsLoaded
    /\ OneDirectionPerNeighbor(NeighborEntries(origin.given.layout))
    /\ \E k \in 1..Len(origin.given.layout) :
          \E i \in 1..Len(origin.given.layout[k].neighbors) :
              origin.given.layout[k].neighbors[i][2] = NoneVal
    /\ EdgeSet(layout.val.graph) =
            {<<"A", "C", [direction |-> "south_west"]>>, <<"A", "B", [direction |-> "north_east"]>>,
             <<"B", "A", [direction |-> "south_west"]>>}

\* C21: after a call of from_dict, whether it made a Layout or failed, the
\* mapping the caller supplied is as it was: it has its layout key, whose list
\* holds the records given, each with the keys and values it had.
C21_CallerMappingKept ==
    layout.pc \in {"made", "failed"} =>
        /\ "layout" \in DOMAIN setup.top
        /\ setup.top = origin.given
        /\ setup.records = origin.given.layout

\* C24: whatever made the Layout (from_dict and so the constructor, copy,
\* index_qubits), get_inds(get_qubits()) succeeds and is the list 0, 1, ...,
\* N-1, N the number of qubits.
C24_IndsOfAllQubits ==
    layout.pc = "made" =>
        LET qubits == get_qubits(layout.val)
            r == get_inds(layout.val, qubits)
        IN  /\ r.err = "ok"
            /\ r.val = [i \in 1..Len(qubits) |-> i - 1]

\* C24 holds of the instances that from_dict and copy make
IndsOfAllQubitsUnlessIndexed ==
    (layout.pc = "made" /\ origin.self.pc # "indexed") =>
        LET qubits == get_qubits(layout.val)
            r == get_inds(layout.val, qubits)
        IN  /\ r.err = "ok"
            /\ r.val = [i \in 1..Len(qubits) |-> i - 1]

\* the labels a record mentions, in the order a scan meets them: its qubit,
\* then the neighbors it lists that are not None
RecordMentions(rec) ==
    <<rec.qubit>> \o SelectSeq([i \in 1..Len(rec.neighbors) |-> rec.neighbors[i][2]],
                               LAMBDA x : x # NoneVal)

RECURSIVE Mentions(_, _)
\* the labels the records from the k-th on mention, in the order of the scan
Mentions(records, k) ==
    IF k > Len(records) THEN << >>
    ELSE RecordMentions(records[k]) \o Mentions(records, k + 1)

RECURSIVE FirstMentions(_, _)
\* the labels of the sequence from the i-th on that do not occur before,
\* each at its first occurrence
FirstMentions(labels, i) ==
    IF i > Len(labels) THEN << >>
    ELSE IF \E j \in 1..(i - 1) : labels[j] = labels[i]
         THEN FirstMentions(labels, i + 1)
         ELSE <<labels[i]>> \o FirstMentions(labels, i + 1)

\* the labels that have a record
Recorded(records) == {records[k].qubit : k \in 1..Len(records)}

\* C25: in a Layout from_dict made, get_qubits() with no conditions lists the
\* labels in the order in which the scan of the records first mentions them,
\* get_inds gives each its position in that order, so a label named as a
\* neighbor before its own record stands where it was first named, and a
\* label that is named as a neighbor and has no record is a qubit of the
\* layout with no attributes.
C25_FirstMentionOrder ==
    AsLoaded =>
        LET records == origin.given.layout
            order == FirstMentions(Mentions(records, 1), 1)
        IN  /\ get_qubits(layout.val) = order
            /\ get_qubits_where(layout.val, << >>) = [err |-> "ok", val |-> order]
            /\ get_inds(layout.val, order) = [err |-> "ok", val |-> [i \in 1..Len(order) |-> i - 1]]
            /\ \A q \in Range(order) \ Recorded(records) :
                  /\ q \in Qubits(layout.val)
                  /\ layout.val.graph.node_attrs[q] = << >>

\* A lists C, which has no record, and then B, whose record comes second: the
\* order is A, C, B, so B stands after C, and C has no attributes
C25_Witness ==
    /\ AsLoaded
    /\ Len(origin.given.layout) = 2
    /\ origin.given.layout[1].qubit = "A" /\ origin.given.layout[2].qubit = "B"
    /\ get_qubits(layout.val) = <<"A", "C", "B">>
    /\ get_inds(layout.val, <<"B", "C">>).val = <<2, 1>>
    /\ layout.val.graph.node_attrs["C"] = << >>
    /\ layout.val.graph.node_attrs["B"] # << >>

-----------------------------------------------------------------------------
(* The matrices of a Layout: a caller holds a Layout whose qubits have a role, *)
(* a stab_type and grid coordinates, and asks for one of its matrices.         *)

\* the distance-3 layout: the records of rot_surf_code(3), loaded by from_dict
SurfaceLayout ==
    from_dict(LayoutSetup(GenRunTo(GenStart([kind |-> "int", val |-> 3]), "construct"))).val

\* the grid coordinates of the qubits a caller lists
CoordInputs == {0, 1, 8}

\* the records a caller may list for its i-th qubit: an ancilla anywhere on the
\* grid, or a data qubit
MatRecordInputs(i) ==
    LET qubit == "Q" \o ToString(i)
    IN  {[qubit |-> qubit, role |-> "anc", stab_type |-> "x_type", coords |-> <<row, col>>,
          neighbors |-> << >>] : row \in CoordInputs, col \in CoordInputs}
        \cup {[qubit |-> qubit, role |-> "data", stab_type |-> NoneVal, coords |-> <<0, 0>>,
                neighbors |-> << >>]}

RECURSIVE MatRecordLists(_)
\* the lists of n records, one for each of the qubits Q1..Qn
MatRecordLists(n) ==
    IF n = 0 THEN {<< >>}
    ELSE {Append(recs, rec) : recs \in MatRecordLists(n - 1), rec \in MatRecordInputs(n)}

MatSetupInputs == UNION {MatRecordLists(n) : n \in 1..MaxAncillas}

MatInit ==
    /\ layout \in {[pc |-> "made", err |-> "ok", val |-> L] :
                        L \in {SurfaceLayout} \cup {from_dict([layout |-> recs]).val : recs \in MatSetupInputs}}
    /\ query = Idle
    /\ setup = Idle /\ origin = Idle /\ dumped = Idle /\ reloaded = Idle
    /\ gen = Idle /\ circ = Idle

\* query = layout.expansion_matrix()
ExpansionMatrix ==
    /\ layout.pc = "made" /\ query.pc = "idle"
    /\ LET r == expansion_matrix(layout.val)
       IN  query' = [pc |-> "expanded", err |-> r.err, val |-> r.val]
    /\ UNCHANGED <<setup, layout, origin, dumped, reloaded, genVars, circVars>>

\* query = layout.projection_matrix(stab_type)
ProjectionMatrix ==
    /\ layout.pc = "made" /\ query.pc = "idle"
    /\ \E stab_type \in {"x_type", "z_type"} :
          LET r == projection_matrix(layout.val, stab_type)
          IN  query' = [pc |-> "projected", arg |-> stab_type, err |-> r.err, val |-> r.val]
    /\ UNCHANGED <<setup, layout, origin, dumped, reloaded, genVars, circVars>>

MatNext ==
    \/ ExpansionMatrix
    \/ ProjectionMatrix

MatSpec == MatInit /\ [][MatNext]_vars

-----------------------------------------------------------------------------
(* Claims about the matrices, checked under MatSpec *)

Ancillas(L) == SelectSeq(L.graph.nodes, LAMBDA q : L.graph.node_attrs[q].role = "anc")

\* the indices of the true entries of a tensor
TrueEntries(tensor) == {ix \in DOMAIN tensor : tensor[ix]}

\* C13: for a layout with at least one ancilla, expansion_matrix returns a
\* boolean tensor of shape (num_anc, 1, num_rows, num_cols), num_rows and
\* num_cols the numbers of distinct row and column coordinates of the
\* ancillas, whose true entries are, for the k-th ancilla, the one entry at
\* channel 0, at the row index that is the number of ancilla row coordinates
\* larger than its own, and at the column index that is the number of ancilla
\* column coordinates smaller than its own.
C13_ExpansionByRank ==
    (query.pc = "expanded" /\ Ancillas(layout.val) # << >>) =>
        LET anc == Ancillas(layout.val)
            Coords(k) == layout.val.graph.node_attrs[anc[k]].coords
            Rows == {Coords(k)[1] : k \in 1..Len(anc)}
            Cols == {Coords(k)[2] : k \in 1..Len(anc)}
            RowRank(row) == Cardinality({r \in Rows : r > row})
            ColRank(col) == Cardinality({c \in Cols : c < col})
        IN  /\ query.err = "ok"
            /\ query.val.shape = <<Len(anc), 1, Cardinality(Rows), Cardinality(Cols)>>
            /\ DOMAIN query.val.data = (0..(Len(anc) - 1)) \X {0} \X (0..(Cardinality(Rows) - 1))
                                            \X (0..(Cardinality(Cols) - 1))
            /\ TrueEntries(query.val.data) =
                    {<<k - 1, 0, RowRank(Coords(k)[1]), ColRank(Coords(k)[2])>> : k \in 1..Len(anc)}

\* the matrix P is the projection of the Layout L on its x_type ancillas as the
\* distance-3 layout must have it: 9 rows, 4 columns, a 1 exactly where the
\* data qubit has an edge to the ancilla, 2 or 4 ones per column
ProjectionAsClaimed(L, P) ==
    /\ Len(P.data_qubit) = 9 /\ Cardinality(Range(P.data_qubit)) = 9
    /\ Len(P.anc_qubit) = 4 /\ Cardinality(Range(P.anc_qubit)) = 4
    /\ \A q \in Range(P.data_qubit) : L.graph.node_attrs[q].role = "data"
    /\ \A a \in Range(P.anc_qubit) : L.graph.node_attrs[a].stab_type = "x_type"
    /\ \A q \in Range(P.data_qubit), a \in Range(P.anc_qubit) :
          /\ P.data[<<q, a>>] \in {0, 1}
          /\ P.data[<<q, a>>] = 1 <=> \E e \in EdgeSet(L.graph) : e[1] = q /\ e[2] = a
    /\ \A a \in Range(P.anc_qubit) :
          Cardinality({q \in Range(P.data_qubit) : P.data[<<q, a>>] = 1}) \in {2, 4}

\* C14: rot_surf_code(3) returns a Layout, and projection_matrix('x_type') of
\* that Layout has one row per data qubit (9) and one column per x_type
\* ancilla (4), the entry 1 exactly where there is an edge from the data qubit
\* to the ancilla, and a sum of 2 or 4 in every column.  Checked under GenSpec.
C14_ProjectionOfGenerated ==
    (gen.pc \in {"done", "error"} /\ IsInt(gen.distance) /\ gen.distance.val = 3) =>
        /\ gen.pc = "done"
        /\ PyType(gen.result) = "Layout"
        /\ projection_matrix(gen.result, "x_type").err = "ok"
        /\ ProjectionAsClaimed(gen.result, projection_matrix(gen.result, "x_type").val)

\* the same matrix asked of the Layout that from_dict makes of the records
\* rot_surf_code(3) has built when it fails
ProjectionOfLoadedRecords ==
    (query.pc = "projected" /\ layout.val = SurfaceLayout /\ query.arg = "x_type") =>
        query.err = "ok" /\ ProjectionAsClaimed(layout.val, query.val)

-----------------------------------------------------------------------------
(* circuits/util.py: circuit_from_schedule(schedule, layout, model), with    *)
(* finalize and add_idling left False.  The schedule is read as the loops    *)
(* read it: the next layer, the next gate record of the layer, the next      *)
(* qubit (or pair) of the record; each is chosen when it is read.  The model *)
(* is the collaborator: it provides the gates of ModelGates, and the gate it *)
(* returns has a duration of its choosing.                                   *)

\* the labels of SurfaceLayout as sorted() orders them
SortedLabels ==
    <<"D1", "D2", "D3", "D4", "D5", "D6", "D7", "D8", "D9",
      "X1", "X2", "X3", "X4", "Z1", "Z2", "Z3", "Z4">>

\* a mutant of Sorted: the circuit is built over every qubit of the layout
Sorted_whole_layout(labels) == SortedLabels

\* sorted(circ_qubits)
Sorted(labels) == SelectSeq(SortedLabels, LAMBDA q : q \in labels)

ModelGates == {"rotate_x", "cphase"}

\* the (label, num_qubits) of the gate records a schedule may hold
GateRecordInputs ==
    {<<"rotate_x", 1>>, <<"cphase", 2>>, <<"measure", 3>>, <<"cphase", 3>>, <<"rotate_x", 0>>}

\* the qubits a 1-qubit record may list: two of the layout, one that is not
QubitInputs == {"D1", "X1", "Q0"}

\* the pairs a 2-qubit record may list: coupled both ways, two data qubits
\* that are not coupled, and pairs with a qubit that is not in the layout
PairInputs ==
    {<<"D1", "X1">>, <<"X1", "D1">>, <<"D1", "D2">>, <<"D1", "Q0">>, <<"Q0", "X1">>}

TimeInputs == 0..MaxTime
DurationInputs == 0..MaxDuration

NotInLayoutErr == "ValueError: Qubit not in layout."
NotCoupledErr == "ValueError: Qubit not coupled in layout."
LateErr == "ValueError: Gate executed before previous operation has finished."
NumQubitsErr == "ValueError: Unexpected number of qubits"
NoGateErr == "AttributeError: model has no such gate"

\* gate_method(*qubits, **parameters): the gate the model returns, which starts
\* at time 0 and lasts as long as the model says
ModelGate(label, gate_qubits, duration) ==
    [label |-> label, qubits |-> gate_qubits, time_start |-> 0, time_end |-> duration]

\* a mutant of shift: the gate is left where the model put it
shift_nowhere(gate, time_start) == gate

\* gate.shift(time_start=time_start): the gate moved to start at time_start
shift(gate, time_start) ==
    [gate EXCEPT !.time_start = time_start,
                 !.time_end = time_start + (gate.time_end - gate.time_start)]

\* gate_method(*qubits, **parameters).shift(time_start=time_start)
ShiftedGate(label, gate_qubits, time_start, duration) ==
    shift(ModelGate(label, gate_qubits, duration), time_start)

\* lines 8-11
CircStart(L) ==
    [pc |-> "scan", in_layer |-> FALSE, time_start |-> 0, label |-> "", n_qubits |-> 0,
     qubits |-> get_qubits(L),
     qubit_times |-> [q \in Range(get_qubits(L)) |-> 0],
     circ_qubits |-> {}, gates |-> << >>,
     last |-> [kind |-> "none"], read |-> << >>, fell |-> {},
     err |-> "ok", circuit |-> NoneVal]

\* c.last is the item of the schedule read last, c.read the qubits and pairs
\* read so far, each with the label of its record and the time_start of its
\* layer, and c.fell the qubits whose entry of qubit_times was once replaced
\* by a smaller one
Raise(c, err, last) ==
    [c EXCEPT !.pc = "error", !.err = err, !.last = last,
              !.read = IF last.kind \in {"one", "two"} THEN Append(@, last) ELSE @]

\* lines 13-14
CircLayer(c, time_start) ==
    [c EXCEPT !.in_layer = TRUE, !.time_start = time_start, !.label = "", !.n_qubits = 0,
              !.last = [kind |-> "layer"]]

\* a mutant of CircRecord: any number of qubits is let through
CircRecord_any_number(c, gate_label, n_qubits) ==
    LET last == [kind |-> "record", label |-> gate_label, n_qubits |-> n_qubits]
    IN  IF gate_label \notin ModelGates THEN Raise(c, NoGateErr, last)
        ELSE [c EXCEPT !.label = gate_label, !.n_qubits = n_qubits, !.last = last]

\* lines 16-21, 38, 68-71
CircRecord(c, gate_label, n_qubits) ==
    LET last == [kind |-> "record", label |-> gate_label, n_qubits |-> n_qubits]
    IN  IF gate_label \notin ModelGates THEN Raise(c, NoGateErr, last)
        ELSE IF n_qubits = 1 \/ n_qubits = 2
             THEN [c EXCEPT !.label = gate_label, !.n_qubits = n_qubits, !.last = last]
             ELSE Raise(c, NumQubitsErr, last)

\* line 23
NotInLayout(qubits, qubit) == qubit \notin Range(qubits)

\* a mutant of PairNotInLayout: and for or
PairNotInLayout_both(qubits, ctrl_q, target_q) ==
    ctrl_q \notin Range(qubits) /\ target_q \notin Range(qubits)

\* line 40
PairNotInLayout(qubits, ctrl_q, target_q) ==
    ctrl_q \notin Range(qubits) \/ target_q \notin Range(qubits)

\* a mutant of NotCoupled: the target is looked up among the qubits two steps
\* away as well
NotCoupled_loose(L, ctrl_q, target_q) ==
    target_q \notin Range(get_neighbors(L, ctrl_q))
        \cup UNION {Range(get_neighbors(L, n)) : n \in Range(get_neighbors(L, ctrl_q))}

\* line 45
NotCoupled(L, ctrl_q, target_q) == target_q \notin Range(get_neighbors(L, ctrl_q))

\* a mutant of Late: no gate is late
Late_never(qubit_time, time_start) == FALSE

\* a mutant of Late: a gate may not start when the previous one ends
Late_or_equal(qubit_time, time_start) == qubit_time >= time_start

\* lines 26, 51-52
Late(qubit_time, time_start) == qubit_time > time_start

\* lines 22-36, one qubit of a 1-qubit record
CircOneQubit(c, L, qubit, duration) ==
    LET last == [kind |-> "one", label |-> c.label, qubits |-> <<qubit>>,
                 time_start |-> c.time_start]
    IN  IF NotInLayout(c.qubits, qubit) THEN Raise(c, NotInLayoutErr, last)
        ELSE IF Late(c.qubit_times[qubit], c.time_start) THEN Raise(c, LateErr, last)
        ELSE LET gate == ShiftedGate(c.label, <<qubit>>, c.time_start, duration)
             IN  [c EXCEPT !.circ_qubits = @ \cup {qubit},
                           !.gates = Append(@, gate),
                           !.qubit_times[qubit] = gate.time_end,
                           !.fell = @ \cup {q \in {qubit} : gate.time_end < c.qubit_times[q]},
                           !.last = last, !.read = Append(@, last)]

\* a mutant of CircTwoQubit: the lateness check comes before the coupling check
CircTwoQubit_late_first(c, L, ctrl_q, target_q, duration) ==
    LET last == [kind |-> "two", label |-> c.label, qubits |-> <<ctrl_q, target_q>>,
                 time_start |-> c.time_start]
    IN  IF PairNotInLayout(c.qubits, ctrl_q, target_q) THEN Raise(c, NotInLayoutErr, last)
        ELSE IF Late(c.qubit_times[ctrl_q], c.time_start)
                    \/ Late(c.qubit_times[target_q], c.time_start)
             THEN Raise(c, LateErr, last)
        ELSE IF NotCoupled(L, ctrl_q, target_q) THEN Raise(c, NotCoupledErr, last)
        ELSE LET gate == ShiftedGate(c.label, <<ctrl_q, target_q>>, c.time_start, duration)
             IN  [c EXCEPT !.circ_qubits = @ \cup {ctrl_q, target_q},
                           !.gates = Append(@, gate),
                           !.qubit_times = [@ EXCEPT ![ctrl_q] = gate.time_end,
                                                     ![target_q] = gate.time_end],
                           !.fell = @ \cup {q \in {ctrl_q, target_q} :
                                                gate.time_end < c.qubit_times[q]},
                           !.last = last, !.read = Append(@, last)]

\* lines 39-66, one pair of a 2-qubit record
CircTwoQubit(c, L, ctrl_q, target_q, duration) ==
    LET last == [kind |-> "two", label |-> c.label, qubits |-> <<ctrl_q, target_q>>,
                 time_start |-> c.time_start]
    IN  IF PairNotInLayout(c.qubits, ctrl_q, target_q) THEN Raise(c, NotInLayoutErr, last)
        ELSE IF NotCoupled(L, ctrl_q, target_q) THEN Raise(c, NotCoupledErr, last)
        ELSE IF Late(c.qubit_times[ctrl_q], c.time_start)
                    \/ Late(c.qubit_times[target_q], c.time_start)
             THEN Raise(c, LateErr, last)
        ELSE LET gate == ShiftedGate(c.label, <<ctrl_q, target_q>>, c.time_start, duration)
             IN  [c EXCEPT !.circ_qubits = @ \cup {ctrl_q, target_q},
                           !.gates = Append(@, gate),
                           !.qubit_times = [@ EXCEPT ![ctrl_q] = gate.time_end,
                                                     ![target_q] = gate.time_end],
                           !.fell = @ \cup {q \in {ctrl_q, target_q} :
                                                gate.time_end < c.qubit_times[q]},
                           !.last = last, !.read = Append(@, last)]

\* lines 73, 83
CircFinish(c) ==
    [c EXCEPT !.pc = "done", !.last = [kind |-> "finish"],
              !.circuit = [qubits |-> Sorted(c.circ_qubits), gates |-> c.gates]]

Init ==
    /\ circ = CircStart(SurfaceLayout)
    /\ layout = [pc |-> "made", err |-> "ok", val |-> SurfaceLayout]
    /\ setup = Idle /\ origin = Idle
    /\ dumped = Idle /\ reloaded = Idle /\ query = Idle
    /\ gen = Idle

\* for layer in schedule["layers"]
NextLayer ==
    /\ circ.pc = "scan"
    /\ \E time_start \in TimeInputs : circ' = CircLayer(circ, time_start)
    /\ UNCHANGED <<genVars, layVars>>

\* for gate_dict in layer["gates"]
NextRecord ==
    /\ circ.pc = "scan" /\ circ.in_layer
    /\ \E rec \in GateRecordInputs : circ' = CircRecord(circ, rec[1], rec[2])
    /\ UNCHANGED <<genVars, layVars>>

\* for qubit in gate_dict["qubits"], num_qubits 1
OneQubitGate ==
    /\ circ.pc = "scan" /\ circ.n_qubits = 1
    /\ Len(circ.gates) < MaxGates
    /\ \E qubit \in QubitInputs, duration \in DurationInputs :
          circ' = CircOneQubit(circ, layout.val, qubit, duration)
    /\ UNCHANGED <<genVars, layVars>>

\* for ctrl_q, target_q in gate_dict["qubits"], num_qubits 2
TwoQubitGate ==
    /\ circ.pc = "scan" /\ circ.n_qubits = 2
    /\ Len(circ.gates) < MaxGates
    /\ \E pair \in PairInputs, duration \in DurationInputs :
          circ' = CircTwoQubit(circ, layout.val, pair[1], pair[2], duration)
    /\ UNCHANGED <<genVars, layVars>>

\* the layers are exhausted: the circuit is built and returned
Finish ==
    /\ circ.pc = "scan"
    /\ circ' = CircFinish(circ)
    /\ UNCHANGED <<genVars, layVars>>

Next ==
    \/ NextLayer
    \/ NextRecord
    \/ OneQubitGate
    \/ TwoQubitGate
    \/ Finish

Spec == Init /\ [][Next]_vars

-----------------------------------------------------------------------------
(* Claims about circuit_from_schedule, checked under Spec *)

LayoutQubits == Range(get_qubits(SurfaceLayout))

\* the gates committed before the last qubit (or pair) was read
PriorGates ==
    IF circ.pc = "error" THEN circ.gates ELSE SubSeq(circ.gates, 1, Len(circ.gates) - 1)

\* T(q): the end time of the last of the gates that acts on q, 0 when none does
LastEnd(gates, q) ==
    LET on == {i \in 1..Len(gates) : q \in Range(gates[i].qubits)}
    IN  IF on = {} THEN 0
        ELSE gates[CHOOSE i \in on : \A j \in on : j <= i].time_end

Rejected(err) == circ.pc = "error" /\ circ.err = err

\* the last qubit (or pair) read was committed as the last gate of the list
Committed ==
    /\ circ.pc = "scan" /\ circ.err = "ok" /\ Len(circ.gates) > 0
    /\ circ.gates[Len(circ.gates)].qubits = circ.last.qubits
    /\ circ.gates[Len(circ.gates)].time_start = circ.last.time_start

\* C1: a 1-qubit gate on a layout qubit q in a layer starting at t is rejected
\* with the lateness error if and only if T(q) > t, T(q) being the end time of
\* the last gate committed on q before it, or 0; otherwise it is committed.
C1_LatenessRule ==
    (circ.last.kind = "one" /\ circ.last.qubits[1] \in LayoutQubits) =>
        LET T == LastEnd(PriorGates, circ.last.qubits[1])
        IN  /\ Rejected(LateErr) <=> T > circ.last.time_start
            /\ ~Rejected(LateErr) => Committed

\* a second gate on the same qubit starting exactly when the first, of positive
\* duration, ends
C1_Witness ==
    /\ circ.last.kind = "one" /\ Committed
    /\ Len(circ.gates) = 2
    /\ circ.gates[1].qubits = <<"D1">> /\ circ.gates[2].qubits = <<"D1">>
    /\ circ.gates[1].time_end > circ.gates[1].time_start
    /\ circ.gates[2].time_start = circ.gates[1].time_end

\* C2: a pair (ctrl, target) of two layout qubits is rejected with the not
\* coupled error if and only if the layout has no edge from ctrl to target.
C2_CouplingRule ==
    (circ.last.kind = "two" /\ circ.last.qubits[1] \in LayoutQubits
                            /\ circ.last.qubits[2] \in LayoutQubits) =>
        LET coupled == \E e \in EdgeSet(SurfaceLayout.graph) :
                            e[1] = circ.last.qubits[1] /\ e[2] = circ.last.qubits[2]
        IN  Rejected(NotCoupledErr) <=> ~coupled

\* D1 and its x-type neighbor X1
C2_Witness ==
    /\ circ.last.kind = "two" /\ Committed
    /\ circ.last.qubits = <<"D1", "X1">>
    /\ SurfaceLayout.graph.node_attrs["X1"].stab_type = "x_type"

\* C3: a 1-qubit gate on a qubit that is not in the layout, and a pair of
\* which ctrl or target is not in the layout, is rejected with the not in
\* layout error, whatever the qubit times are; a call that raised returns no
\* circuit.
C3_NotInLayoutRule ==
    /\ (circ.last.kind = "one" /\ circ.last.qubits[1] \notin LayoutQubits) =>
            Rejected(NotInLayoutErr)
    /\ (circ.last.kind = "two" /\ (circ.last.qubits[1] \notin LayoutQubits
                                    \/ circ.last.qubits[2] \notin LayoutQubits)) =>
            Rejected(NotInLayoutErr)
    /\ (circ.pc = "error" \/ circ.err # "ok") =>
            circ.pc = "error" /\ circ.err # "ok" /\ circ.circuit = NoneVal

\* a pair with a qubit that is not in the layout, read when its other qubit is
\* still busy
C3_Witness ==
    /\ circ.last.kind = "two" /\ Rejected(NotInLayoutErr)
    /\ circ.last.qubits = <<"D1", "Q0">>
    /\ circ.qubit_times["D1"] > circ.time_start

\* C15: while no check has failed, the gates emitted are, one for one and in
\* the same order, the qubits of the 1-qubit records and the pairs of the
\* 2-qubit records in the order the schedule lists them, whatever the order of
\* the layers' start times; each gate has the label of its record, acts on its
\* qubit or pair and starts at the time_start of its layer; the circuit
\* returned holds these gates.
C15_OneGatePerItemInOrder ==
    /\ circ.pc \in {"scan", "done"} =>
          /\ Len(circ.gates) = Len(circ.read)
          /\ \A i \in 1..Len(circ.read) :
                /\ circ.gates[i].label = circ.read[i].label
                /\ circ.gates[i].qubits = circ.read[i].qubits
                /\ circ.gates[i].time_start = circ.read[i].time_start
    /\ circ.pc = "done" => circ.circuit.gates = circ.gates

\* layers out of time order: a gate on D1 in a layer that starts at 2, then a
\* gate on X1 in a layer that starts at 0, and the circuit returned
C15_Witness ==
    /\ circ.pc = "done" /\ Len(circ.circuit.gates) = 2
    /\ circ.circuit.gates[1].qubits = <<"D1">> /\ circ.circuit.gates[1].time_start = 2
    /\ circ.circuit.gates[2].qubits = <<"X1">> /\ circ.circuit.gates[2].time_start = 0

\* C16: the qubit list of the circuit returned holds exactly the qubits that
\* some emitted gate acts on, each once, in the sorted order of their labels;
\* a qubit of the layout that no gate acts on is not in it.
C16_CircuitQubits ==
    circ.pc = "done" =>
        LET qs == circ.circuit.qubits
            touched == UNION {Range(circ.gates[i].qubits) : i \in 1..Len(circ.gates)}
        IN  /\ Range(qs) = touched
            /\ Len(qs) = Cardinality(touched)
            /\ \A i, j \in 1..Len(qs) :
                  i < j => IndexOf(SortedLabels, qs[i]) < IndexOf(SortedLabels, qs[j])
            /\ \A q \in LayoutQubits \ touched : q \notin Range(qs)

\* X1 is acted on before D1, and the circuit lists D1 before X1 and no other
\* qubit of the layout
C16_Witness ==
    /\ circ.pc = "done" /\ Len(circ.gates) = 2
    /\ circ.gates[1].qubits = <<"X1">> /\ circ.gates[2].qubits = <<"D1">>
    /\ circ.circuit.qubits = <<"D1", "X1">>

\* C17: a gate record whose label the model provides and whose num_qubits is
\* neither 1 nor 2 makes the call raise the unexpected number of qubits error
\* when the record is read: no gate is emitted for it, the gates are those of
\* the items read before it, and no circuit is returned.
C17_UnexpectedNumQubits ==
    (circ.last.kind = "record" /\ circ.last.label \in ModelGates
                               /\ circ.last.n_qubits \notin {1, 2}) =>
        /\ Rejected(NumQubitsErr)
        /\ Len(circ.gates) = Len(circ.read)
        /\ circ.circuit = NoneVal

\* a record with num_qubits 3 read after a gate was emitted
C17_Witness ==
    /\ Rejected(NumQubitsErr) /\ circ.last.kind = "record"
    /\ circ.last.label = "cphase" /\ circ.last.n_qubits = 3
    /\ Len(circ.gates) = 1

\* C22: the call stops at the first item that violates a check: when it has
\* raised on a qubit or a pair, every item read before it has its gate and the
\* item itself has none.  A pair with a qubit that is not in the layout raises
\* the not in layout error; a pair of layout qubits that are not coupled
\* raises the not coupled error, also when one of them is still busy; a
\* coupled pair raises the lateness error when one of them is still busy, and
\* is committed otherwise.  A record whose label the model does not provide
\* fails when the label is resolved, whatever its num_qubits, before any of
\* its qubits is read.
C22_ErrorPrecedence ==
    /\ circ.last.kind = "two" =>
          LET ctrl_q == circ.last.qubits[1]
              target_q == circ.last.qubits[2]
              in_layout == ctrl_q \in LayoutQubits /\ target_q \in LayoutQubits
              coupled == \E e \in EdgeSet(SurfaceLayout.graph) : e[1] = ctrl_q /\ e[2] = target_q
              late == \/ LastEnd(PriorGates, ctrl_q) > circ.last.time_start
                      \/ LastEnd(PriorGates, target_q) > circ.last.time_start
          IN  /\ ~in_layout => Rejected(NotInLayoutErr)
              /\ (in_layout /\ ~coupled) => Rejected(NotCoupledErr)
              /\ (in_layout /\ coupled /\ late) => Rejected(LateErr)
              /\ (in_layout /\ coupled /\ ~late) => Committed
    /\ (circ.last.kind = "record" /\ circ.last.label \notin ModelGates) =>
          Rejected(NoGateErr) /\ Len(circ.gates) = Len(circ.read)
    /\ (circ.pc = "error" /\ circ.last.kind \in {"one", "two"}) =>
          /\ Len(circ.gates) = Len(circ.read) - 1
          /\ circ.read[Len(circ.read)] = circ.last
          /\ \A i \in 1..Len(circ.gates) : circ.gates[i].qubits = circ.read[i].qubits
          /\ circ.circuit = NoneVal

\* the pair of D1 and D2, which are not coupled, read while D1 is still busy
C22_Witness ==
    /\ Rejected(NotCoupledErr) /\ circ.last.kind = "two"
    /\ circ.last.qubits = <<"D1", "D2">>
    /\ circ.qubit_times["D1"] > circ.time_start
    /\ Len(circ.gates) = 1

\* two gates act on a common qubit
Share(gate1, gate2) ==
    \E a \in 1..Len(gate1.qubits) : \E b \in 1..Len(gate2.qubits) : gate1.qubits[a] = gate2.qubits[b]

\* C23: the gates the model returns end no earlier than they start.  Then at
\* every point of the scan any two emitted gates that act on a common qubit
\* do not overlap in time, the one emitted later starting no earlier than the
\* other ends; a circuit returned holds these gates; and no qubit's recorded
\* last end time was ever replaced by a smaller one, the recorded time being
\* no smaller than the end time of any gate emitted on the qubit.
C23_NoOverlap ==
    (\A i \in 1..Len(circ.gates) : circ.gates[i].time_end >= circ.gates[i].time_start) =>
        /\ \A j \in 1..Len(circ.gates) : \A i \in 1..(j - 1) :
              Share(circ.gates[i], circ.gates[j]) =>
                  circ.gates[j].time_start >= circ.gates[i].time_end
        /\ circ.pc = "done" => circ.circuit.gates = circ.gates
        /\ circ.fell = {}
        /\ \A i \in 1..Len(circ.gates) : \A a \in 1..Len(circ.gates[i].qubits) :
              circ.gates[i].time_end <= circ.qubit_times[circ.gates[i].qubits[a]]

\* a gate on the pair of D1 and X1 that lasts from 0 to 1, then a gate on X1
\* that starts at 1, in the circuit returned
C23_Witness ==
    /\ circ.pc = "done" /\ Len(circ.circuit.gates) = 2
    /\ circ.circuit.gates[1].qubits = <<"D1", "X1">>
    /\ circ.circuit.gates[1].time_start = 0 /\ circ.circuit.gates[1].time_end = 1
    /\ circ.circuit.gates[2].qubits = <<"X1">>
    /\ circ.circuit.gates[2].time_start = 1
    /\ circ.qubit_times["X1"] >= 1 /\ circ.qubit_times["D1"] = 1

=============================================================================
